---- MODULE Spec2Model ----
(***************************************************************************)
(* Device synchronization and attendance reconciliation of the Elsewedy    *)
(* attendance backend: ZKTecoService (services/zktecoService.js),          *)
(* DeviceSyncService (services/deviceSync.js), the device routes, the      *)
(* ZKTeco webhook route, the Attendance and Device models and the          *)
(* WebSocketService.                                                       *)
(*                                                                         *)
(* Times are integers in milliseconds since the epoch; the host is taken   *)
(* to run in UTC, so a calendar date is the day number t \div DayMs.       *)
(* A null column is NoTime (dates) or NoError (strings).                   *)
(***************************************************************************)
EXTENDS Integers, Sequences, FiniteSets, TLC

(***************************************************************************)
(* Bounds of the model                                                     *)
(***************************************************************************)
MaxScans == 2
MaxStarts == 2
MaxConcurrent == 2
MaxTicks == 1
MaxConns == 2
MaxMsgs == 3

(***************************************************************************)
(* Program constants                                                       *)
(***************************************************************************)
MinuteMs == 60000
HourMs == 60 * MinuteMs
DayMs == 24 * HourMs
LookBackMs == 2 * 60 * 1000
ForceLookBackMs == 7 * 24 * 60 * 60 * 1000
IndexSpacingMs == 2000
StandardMinutes == 8 * 60
HalfDayMinutes == 4 * 60
ExpectedStartHour == 8
ExpectedEndHour == 17
ConcurrencyLimit == 3
DefaultSyncInterval == 300

NoTime == -1
NoError == "null"

(***************************************************************************)
(* Value sets the inputs are drawn from                                    *)
(***************************************************************************)
DeviceIds == 1 .. 4
\* biometric ids: 0 stands for a missing user_id, 1 and 2 are enrolled users
UserIds == {0, 1, 2}
EmployeeIds == {1, 2}
\* terminal clock: the first scan of a log is at 09:00 of day 0, a later scan
\* follows the previous one at the edge of the look-back window or just beyond
ScanBase == 9 * HourMs
ScanGaps == {LookBackMs, LookBackMs + 1}
\* ZKTeco verify type codes: fingerprint and face
VerifyTypes == {1, 15}
\* host clock at service start: an hour after the terminal's first scan, on
\* the same day or on the next
HostStarts == {ScanBase + HourMs, DayMs + ScanBase + HourMs}
\* the same, and a host whose clock is an hour behind the terminal's
HostStartsEitherSide == HostStarts \cup {ScanBase - HourMs}
ClockSteps == {DayMs}

Max(a, b) == IF a >= b THEN a ELSE b

\* moment#diff(..., 'minutes') truncates toward zero
DiffMinutes(a, b) ==
  IF a >= b THEN (a - b) \div MinuteMs ELSE 0 - ((b - a) \div MinuteMs)

\* new Date(t).toISOString().split('T')[0]
DateOnly(t) == t \div DayMs

(***************************************************************************)
(* ZKTecoService.getVerificationType                                       *)
(***************************************************************************)
getVerificationType(verifyType) ==
  CASE verifyType = 0 -> "password"
    [] verifyType = 1 -> "fingerprint"
    [] verifyType = 2 -> "card"
    [] verifyType = 3 -> "password"
    [] verifyType = 4 -> "fingerprint"
    [] verifyType = 15 -> "face"
    [] OTHER -> "fingerprint"

(***************************************************************************)
(* ZKTecoService.getDeviceLogs, the part after the terminal answered       *)
(***************************************************************************)
\* validLogs filter: log.user_id && log.record_time
IsValidLog(log) == log.user_id # 0 /\ log.record_time # NoTime

RECURSIVE InsertDesc(_, _)
InsertDesc(x, t) ==
  IF t = <<>> THEN <<x>>
  ELSE IF x.record_time >= Head(t).record_time THEN <<x>> \o t
  ELSE <<Head(t)>> \o InsertDesc(x, Tail(t))

\* validLogs.sort((a, b) => new Date(b.record_time) - new Date(a.record_time)), stable
RECURSIVE SortDesc(_)
SortDesc(s) == IF s = <<>> THEN <<>> ELSE InsertDesc(Head(s), SortDesc(Tail(s)))

\* an anchor taken from the host clock instead of the log
HostClockAnchor(sorted, now) == now

\* the anchor of the look-back window: validLogs[0].record_time after the sort
MostRecentLogTime(sorted, now) == sorted[1].record_time

\* logTime >= twoMinutesAgo
IsVeryRecent(logTime, mostRecentLogTime) == logTime >= mostRecentLogTime - LookBackMs

\* timestamp given to the scan at position index (0-based) of the batch
TransformedTimestamp(log, now, index) == now - (index * IndexSpacingMs)

\* the order in which the batch is handed to processDeviceLogs
BatchOrder(veryRecentLogs) == veryRecentLogs

VeryRecentLogs(rawLogs, now) ==
  LET sorted == SortDesc(SelectSeq(rawLogs, IsValidLog))
  IN  IF sorted = <<>> THEN <<>>
      ELSE LET mostRecent == MostRecentLogTime(sorted, now)
           IN  SelectSeq(sorted, LAMBDA l : IsVeryRecent(l.record_time, mostRecent))

getDeviceLogs(deviceId, rawLogs, now) ==
  LET veryRecentLogs == BatchOrder(VeryRecentLogs(rawLogs, now))
  IN  [k \in 1 .. Len(veryRecentLogs) |->
        [userId |-> veryRecentLogs[k].user_id,
         timestamp |-> TransformedTimestamp(veryRecentLogs[k], now, k - 1),
         verificationType |-> getVerificationType(veryRecentLogs[k].type),
         deviceId |-> deviceId,
         originalTime |-> veryRecentLogs[k].record_time,
         sn |-> veryRecentLogs[k].sn]]

(***************************************************************************)
(* Attendance model: the beforeSave hook                                   *)
(***************************************************************************)
\* a hook that leaves the status the caller wrote
KeepsAbsent(totalMinutes) == "absent"

StatusFor(totalMinutes) ==
  IF totalMinutes >= StandardMinutes THEN "present"
  ELSE IF totalMinutes >= HalfDayMinutes THEN "half_day"
  ELSE "early_leave"

beforeSave(a) ==
  LET both == a.checkInTime # NoTime /\ a.checkOutTime # NoTime
      total == DiffMinutes(a.checkOutTime, a.checkInTime)
      a1 == IF both
            THEN [a EXCEPT !.totalWorkingMinutes = Max(0, total),
                           !.overtimeMinutes = IF total > StandardMinutes
                                               THEN total - StandardMinutes ELSE 0,
                           !.status = StatusFor(total)]
            ELSE a
      expectedStart == a.date * DayMs + ExpectedStartHour * HourMs
      a2 == IF a1.checkInTime # NoTime /\ a1.checkInTime > expectedStart
            THEN [a1 EXCEPT !.isLate = TRUE,
                            !.lateMinutes = DiffMinutes(a1.checkInTime, expectedStart)]
            ELSE a1
      expectedEnd == a.date * DayMs + ExpectedEndHour * HourMs
  IN  IF a2.checkOutTime # NoTime /\ a2.checkOutTime < expectedEnd
      THEN [a2 EXCEPT !.isEarlyLeave = TRUE,
                      !.earlyLeaveMinutes = DiffMinutes(expectedEnd, a2.checkOutTime)]
      ELSE a2

\* Attendance.create({...}) of the device paths: column defaults, then the hook
NewAttendance(employeeId, deviceId, logTime, verificationMethod, originalTime, sn) ==
  beforeSave([employeeId |-> employeeId,
              deviceId |-> deviceId,
              date |-> DateOnly(logTime),
              checkInTime |-> logTime,
              checkOutTime |-> NoTime,
              status |-> "present",
              verificationMethod |-> verificationMethod,
              totalWorkingMinutes |-> 0,
              overtimeMinutes |-> 0,
              isLate |-> FALSE,
              lateMinutes |-> 0,
              isEarlyLeave |-> FALSE,
              earlyLeaveMinutes |-> 0,
              rawOriginalTime |-> originalTime,
              rawSn |-> sn])

(***************************************************************************)
(* State                                                                   *)
(***************************************************************************)
VARIABLES
  now,            \* host clock, Date.now()
  ticks,          \* number of host clock steps taken
  deviceLog,      \* the attendance log stored on each terminal
  dbDevices,      \* table devices
  employees,      \* table employees, keyed by biometric id
  ledger,         \* table attendance, in creation order
  passes,         \* executions of the sync / push handlers in progress
  started,        \* number of executions started by timers, operators, pushes
  isRunning,      \* DeviceSyncService.isRunning
  zkDevices,      \* ZKTecoService.devices
  syncIntervals,  \* ZKTecoService.syncIntervals
  liveIntervals,  \* setInterval timers that were created and not cleared
  syncJobs,       \* DeviceSyncService.syncJobs
  liveJobs,       \* cron jobs that were started and not stopped
  sweep,          \* performScheduledSync in progress
  operator,       \* what the operator's requests were answered, forceSyncAll in progress
  offline,        \* terminals that do not answer
  sockets,        \* connections open at each terminal
  clients,        \* WebSocketService.clients
  socks,          \* the sockets accepted by the WebSocket server
  sent,           \* messages written to each socket, in order
  wsOps           \* number of WebSocket requests and broadcasts handled

vars == <<now, ticks, deviceLog, dbDevices, employees, ledger, passes, started,
          isRunning, zkDevices, syncIntervals, liveIntervals, syncJobs, liveJobs,
          sweep, operator, offline, sockets, clients, socks, sent, wsOps>>

reconVars == <<deviceLog, employees, ledger>>
timerVars == <<isRunning, zkDevices, syncIntervals, liveIntervals, syncJobs, liveJobs>>
wsVars == <<clients, socks, sent, wsOps>>

PassIds == 1 .. (MaxStarts + ConcurrencyLimit)
Conns == 1 .. MaxConns
MainJob == 0
JobNames == {MainJob} \cup DeviceIds

\* force is the forceFullSync argument of syncDeviceLogs, zk tells whether the
\* socket of the call's zkInstance is connected, raw is what the terminal
\* returned to it
IdlePass ==
  [pc |-> "idle", kind |-> "none", dev |-> 0, force |-> FALSE, batch |-> <<>>, i |-> 0,
   att |-> 0, processed |-> 0, skipped |-> 0, activated |-> 0, zk |-> FALSE, raw |-> <<>>]

NewDevice(exists) ==
  [exists |-> exists, isActive |-> exists, lastSyncTime |-> NoTime,
   lastSyncStatus |-> "pending", lastSyncError |-> NoError,
   syncInterval |-> DefaultSyncInterval]

IdleSweep == [active |-> FALSE, chunks |-> <<>>, current |-> {}]

\* answer is the last response of POST /devices/:id/sync; active, current,
\* total and rejected follow a forceSyncAll up to its return value, result
NoResult == [total |-> 0, successful |-> 0, failed |-> 0]
IdleOperator ==
  [answer |-> "none", active |-> FALSE, current |-> {}, total |-> 0, rejected |-> 0,
   result |-> NoResult]

\* DeviceSyncService.initialize on empty job maps: the main scheduler and
\* one cron job for every active device of devs
InitialJobs(devs) == {MainJob} \cup devs

\* the state when startServer has returned: the database holds the given
\* device rows and the roster's first employee (inactive, not yet scanned),
\* DeviceSyncService is initialized, ZKTecoService knows no device yet
InitWith(devs, starts) ==
  /\ now \in starts
  /\ ticks = 0
  /\ deviceLog = [d \in DeviceIds |-> <<>>]
  /\ dbDevices = [d \in DeviceIds |-> NewDevice(d \in devs)]
  /\ employees = [e \in EmployeeIds |-> [exists |-> e = 1, isActive |-> FALSE]]
  /\ ledger = <<>>
  /\ passes = [p \in PassIds |-> IdlePass]
  /\ started = 0
  /\ isRunning = TRUE
  /\ zkDevices = [d \in DeviceIds |-> 0]
  /\ syncIntervals = [d \in DeviceIds |-> 0]
  /\ liveIntervals = [d \in DeviceIds |-> 0]
  /\ syncJobs = InitialJobs(devs)
  /\ liveJobs = [j \in JobNames |-> IF j \in InitialJobs(devs) THEN 1 ELSE 0]
  /\ sweep = IdleSweep
  /\ operator = IdleOperator
  /\ offline = {}
  /\ sockets = [d \in DeviceIds |-> 0]
  /\ clients = {}
  /\ socks = [c \in Conns |-> [open |-> FALSE, cid |-> <<>>]]
  /\ sent = [c \in Conns |-> <<>>]
  /\ wsOps = 0

Init == InitWith({1}, HostStarts)

(***************************************************************************)
(* Environment: a terminal records a scan; the host clock advances         *)
(***************************************************************************)
TotalScans == Len(deviceLog[1]) + Len(deviceLog[2]) + Len(deviceLog[3]) + Len(deviceLog[4])

\* the terminal's clock when it records its next scan
ScanTime(log, gap) ==
  IF log = <<>> THEN ScanBase ELSE log[Len(log)].record_time + gap

DeviceScan(d, u, gap, ty) ==
  /\ dbDevices[d].exists
  /\ TotalScans < MaxScans
  /\ ty = 1 \/ u = 1
  /\ deviceLog[d] = <<>> => gap = LookBackMs
  /\ deviceLog' = [deviceLog EXCEPT ![d] =
       Append(@, [user_id |-> u, record_time |-> ScanTime(@, gap), type |-> ty,
                  sn |-> Len(@) + 1])]
  /\ UNCHANGED <<now, ticks, started, dbDevices, employees, ledger, passes, sweep, operator>>
  /\ UNCHANGED <<timerVars, offline, sockets, wsVars>>

\* a step of the host clock stands for the quiet time between two syncs
HostTick(delta) ==
  /\ ticks < MaxTicks
  /\ \A p \in PassIds : passes[p].pc = "idle"
  /\ now' = now + delta
  /\ ticks' = ticks + 1
  /\ UNCHANGED <<started, dbDevices, passes, sweep, operator, reconVars, timerVars, offline, sockets, wsVars>>

(***************************************************************************)
(* Handler executions                                                      *)
(***************************************************************************)
FreeSlots == {p \in PassIds : passes[p].pc = "idle"}
LowestFree == CHOOSE p \in FreeSlots : \A q \in FreeSlots : p <= q

\* a timer, a cron job, an operator or a terminal starts a handler
Busy == PassIds \ FreeSlots

\* the executions that are inside syncDeviceLogs
SyncsInProgress(d) == {p \in PassIds : passes[p].kind = "sync" /\ passes[p].dev = d}

StartPass(kind, d, pc) ==
  /\ started < MaxStarts
  /\ Cardinality(Busy) < MaxConcurrent
  /\ started' = started + 1
  /\ passes' = [passes EXCEPT ![LowestFree] =
       [IdlePass EXCEPT !.pc = pc, !.kind = kind, !.dev = d]]

SetPass(p, r) == passes' = [passes EXCEPT ![p] = r]

\* the execution is the route POST /devices/:id/sync: in syncUsersFromDevice
\* (kind manual) or in syncDeviceLogs(id, true)
OfRoute(r) == r.kind = "manual" \/ r.force

\* the route's response when the call it awaits settles: res.json with
\* success: true after syncDeviceLogs returned, the catch block's 500 with
\* success: false when syncUsersFromDevice or syncDeviceLogs rejected
RouteAnswer(r) == IF r.kind = "manual" \/ r.pc = "thrown" THEN "error" ELSE "ok"

\* what the caller of execution p sees when it settles: the route answers,
\* Promise.allSettled of forceSyncAll gets a result, rejected only if the
\* rejection of syncDeviceLogs got past the catch block of syncDevice
Settled(p) ==
  LET r == passes[p] IN
  [operator EXCEPT
     !.answer = IF OfRoute(r) THEN RouteAnswer(r) ELSE @,
     !.rejected = IF p \in operator.current /\ r.pc = "thrown" THEN @ + 1 ELSE @,
     !.current = @ \ {p}]

\* the handler returns: its slot is free again and a waiting sweep is told
Finish(p) ==
  /\ passes' = [passes EXCEPT ![p] = IdlePass]
  /\ sweep' = [sweep EXCEPT !.current = @ \ {p}]
  /\ operator' = Settled(p)

\* zkService.syncDeviceLogs up to its first suspension: an unregistered
\* device makes it return at once, otherwise the terminal is contacted next.
\* From here on the execution's kind is "sync", whoever called it.
SyncDeviceLogsEntry(d) == IF zkDevices[d] = 0 THEN "idle" ELSE "fetch"

(***************************************************************************)
(* ZKTecoService.registerDevice / startDeviceSync / stopDeviceSync         *)
(***************************************************************************)
\* registerDevice for every device of D, each with its row in rows:
\* this.devices.set(device.id, deviceInfo), then startDeviceSync, which clears
\* the timer the map holds for the device before it sets the new one
Register(D, rows) ==
  /\ zkDevices' = [d \in DeviceIds |->
       IF d \in D THEN rows[d].syncInterval ELSE zkDevices[d]]
  /\ liveIntervals' = [d \in DeviceIds |->
       IF d \in D
       THEN liveIntervals[d] - (IF syncIntervals[d] # 0 THEN 1 ELSE 0) + 1
       ELSE liveIntervals[d]]
  /\ syncIntervals' = [d \in DeviceIds |->
       IF d \in D THEN rows[d].syncInterval ELSE syncIntervals[d]]

RegisterAll(D) == Register(D, dbDevices)

\* GET /devices: every active device that zkService does not know is registered
GetDevices ==
  LET D == {d \in DeviceIds : dbDevices[d].exists /\ dbDevices[d].isActive
                               /\ zkDevices[d] = 0}
  IN  /\ D # {}
      /\ RegisterAll(D)
      /\ UNCHANGED <<now, ticks, started, dbDevices, passes, sweep, operator, offline, sockets, isRunning, syncJobs, liveJobs>>
      /\ UNCHANGED <<reconVars, wsVars>>

\* POST /devices: the row is created and the device registered
CreateDevice(d, s) ==
  /\ ~dbDevices[d].exists
  /\ dbDevices' = [dbDevices EXCEPT ![d] = [NewDevice(TRUE) EXCEPT !.syncInterval = s]]
  /\ Register({d}, dbDevices')
  /\ UNCHANGED <<now, ticks, started, passes, sweep, operator, offline, sockets, isRunning, syncJobs, liveJobs>>
  /\ UNCHANGED <<reconVars, wsVars>>

\* PUT /devices/:id with a new syncInterval; critical tells whether the body
\* carries ipAddress, port or password as well
UpdateDevice(d, s, critical) ==
  /\ dbDevices[d].exists
  /\ dbDevices' = [dbDevices EXCEPT ![d].syncInterval = s]
  /\ IF critical
     THEN Register({d}, dbDevices')
     ELSE UNCHANGED <<zkDevices, syncIntervals, liveIntervals>>
  /\ UNCHANGED <<now, ticks, started, passes, sweep, operator, offline, sockets, isRunning, syncJobs, liveJobs>>
  /\ UNCHANGED <<reconVars, wsVars>>

\* PUT /devices/:id with isActive in the body: the row is updated, and only a
\* body that carries ipAddress, port or password as well reaches registerDevice
SetDeviceActive(d, active, critical) ==
  /\ dbDevices[d].exists
  /\ dbDevices' = [dbDevices EXCEPT ![d].isActive = active]
  /\ IF critical
     THEN Register({d}, dbDevices')
     ELSE UNCHANGED <<zkDevices, syncIntervals, liveIntervals>>
  /\ UNCHANGED <<now, ticks, started, passes, sweep, operator, offline, sockets, isRunning, syncJobs, liveJobs>>
  /\ UNCHANGED <<reconVars, wsVars>>

\* DELETE /devices/:id: zkService.stopDeviceSync(id), then isActive: false
DeleteDevice(d) ==
  /\ dbDevices[d].exists
  /\ liveIntervals' = [liveIntervals EXCEPT ![d] = IF syncIntervals[d] # 0 THEN @ - 1 ELSE @]
  /\ syncIntervals' = [syncIntervals EXCEPT ![d] = 0]
  /\ dbDevices' = [dbDevices EXCEPT ![d].isActive = FALSE]
  /\ UNCHANGED <<now, ticks, started, passes, sweep, operator, offline, sockets, isRunning, zkDevices, syncJobs, liveJobs>>
  /\ UNCHANGED <<reconVars, wsVars>>

\* the delay startDeviceSync gives setInterval
IntervalPeriodMs(syncInterval) == syncInterval * 1000

\* DeviceSyncService.getCronExpression: the field that carries the step and
\* the step, '*/N * * * *' or '0 */H * * *'
getCronExpression(intervalMinutes) ==
  IF intervalMinutes < 1 THEN [field |-> "minute", step |-> 1]
  ELSE IF intervalMinutes < 60 THEN [field |-> "minute", step |-> intervalMinutes]
  ELSE [field |-> "hour", step |-> intervalMinutes \div 60]

\* the time from the firing of a cron expression at 00:00 to its next firing:
\* a step of N fires at 0, N, 2N, ... within the field's range
CronPeriodMs(expr) ==
  IF expr.field = "minute"
  THEN (IF expr.step < 60 THEN expr.step ELSE 60) * MinuteMs
  ELSE (IF expr.step < 24 THEN expr.step ELSE 24) * HourMs

\* DeviceSyncService.updateDeviceSyncInterval: the row is updated and
\* startDeviceSyncJob stops the job the map holds before it starts the new one
UpdateDeviceSyncInterval(d, intervalMinutes) ==
  /\ dbDevices[d].exists
  /\ dbDevices' = [dbDevices EXCEPT ![d].syncInterval = intervalMinutes]
  /\ liveJobs' = [liveJobs EXCEPT ![d] = @ - (IF d \in syncJobs THEN 1 ELSE 0) + 1]
  /\ syncJobs' = syncJobs \cup {d}
  /\ UNCHANGED <<now, ticks, started, passes, sweep, operator, offline, sockets, isRunning, zkDevices, syncIntervals, liveIntervals>>
  /\ UNCHANGED <<reconVars, wsVars>>

\* a terminal stops answering
TerminalDown(d) ==
  /\ dbDevices[d].exists
  /\ d \notin offline
  /\ offline' = offline \cup {d}
  /\ UNCHANGED <<now, ticks, started, dbDevices, passes, sweep, operator, sockets, reconVars, timerVars, wsVars>>

\* a terminal answers again
TerminalUp(d) ==
  /\ d \in offline
  /\ offline' = offline \ {d}
  /\ UNCHANGED <<now, ticks, started, dbDevices, passes, sweep, operator, sockets, reconVars, timerVars, wsVars>>

(***************************************************************************)
(* Triggers of a sync                                                      *)
(***************************************************************************)
\* a tick of the device's setInterval timer: syncDeviceLogs(deviceId)
IntervalTick(d) ==
  /\ liveIntervals[d] > 0
  /\ SyncDeviceLogsEntry(d) # "idle"
  /\ StartPass("sync", d, SyncDeviceLogsEntry(d))
  /\ UNCHANGED <<now, ticks, dbDevices, sweep, operator, reconVars, timerVars, offline, sockets, wsVars>>

\* a timer that is given up once a sync of the device has failed
StoppedByFailure(d) == liveIntervals[d] > 0 /\ dbDevices[d].lastSyncStatus # "failed"

\* the setInterval timer of the device is set
TimerScheduled(d) == liveIntervals[d] > 0

\* any later tick of the interval timer: as IntervalTick, for as long as the
\* timer is set, each tick after the sync before it has returned
LaterTick(d) ==
  /\ TimerScheduled(d)
  /\ SyncDeviceLogsEntry(d) # "idle"
  /\ Busy = {}
  /\ passes' = [passes EXCEPT ![LowestFree] =
       [IdlePass EXCEPT !.pc = SyncDeviceLogsEntry(d), !.kind = "sync", !.dev = d]]
  /\ UNCHANGED <<now, ticks, started, dbDevices, sweep, operator, reconVars, timerVars, offline, sockets, wsVars>>

\* a tick of the device's cron job: syncDevice(device.id)
CronTick(d) ==
  /\ liveJobs[d] > 0
  /\ StartPass("cron", d, "syncDevice")
  /\ UNCHANGED <<now, ticks, dbDevices, sweep, operator, reconVars, timerVars, offline, sockets, wsVars>>

\* POST /devices/:id/sync, up to the device lookup
ManualSync(d) ==
  /\ dbDevices[d].exists
  /\ StartPass("manual", d, "users")
  /\ UNCHANGED <<now, ticks, dbDevices, sweep, operator, reconVars, timerVars, offline, sockets, wsVars>>

(***************************************************************************)
(* DeviceSyncService.syncDevice                                            *)
(***************************************************************************)
\* the device row is read, marked pending, and syncDeviceLogs is entered; an
\* inactive or missing device makes syncDevice return
SyncDevice(p) ==
  LET r == passes[p] IN
  /\ r.pc = "syncDevice"
  /\ IF ~dbDevices[r.dev].exists \/ ~dbDevices[r.dev].isActive
     THEN Finish(p) /\ UNCHANGED dbDevices
     ELSE /\ dbDevices' = [dbDevices EXCEPT ![r.dev].lastSyncStatus = "pending",
                                           ![r.dev].lastSyncError = NoError]
          /\ IF SyncDeviceLogsEntry(r.dev) = "idle"
             THEN Finish(p)
             ELSE SetPass(p, [r EXCEPT !.pc = "fetch", !.kind = "sync"]) /\ UNCHANGED <<sweep, operator>>
  /\ UNCHANGED <<now, ticks, started, reconVars, timerVars, offline, sockets, wsVars>>

(***************************************************************************)
(* DeviceSyncService.performScheduledSync (the 5-minute sweep)             *)
(***************************************************************************)
\* Device.prototype.canSync at host time t
canSync(device, t) ==
  /\ device.isActive
  /\ t - (IF device.lastSyncTime = NoTime THEN 0 ELSE device.lastSyncTime)
       >= device.syncInterval * 1000

\* the elements of a set of numbers in ascending order
RECURSIVE SeqOfSet(_)
SeqOfSet(S) ==
  IF S = {} THEN <<>>
  ELSE LET m == CHOOSE x \in S : \A y \in S : x <= y
       IN  <<m>> \o SeqOfSet(S \ {m})

\* Device.getDevicesNeedingSync, rows in primary-key order
getDevicesNeedingSync ==
  SeqOfSet({d \in DeviceIds : dbDevices[d].exists /\ canSync(dbDevices[d], now)})

RECURSIVE chunkArray(_, _)
chunkArray(array, size) ==
  IF array = <<>> THEN <<>>
  ELSE IF Len(array) <= size THEN <<array>>
  ELSE <<SubSeq(array, 1, size)>> \o chunkArray(SubSeq(array, size + 1, Len(array)), size)

\* the slots taken by the calls of one chunk
ChunkSlots(chunk) == {SeqOfSet(FreeSlots)[k] : k \in 1 .. Len(chunk)}

\* chunk.map(device => this.syncDevice(device.id)): every call runs up to its
\* first suspension, the lookup of the device row
StartChunk(chunk) ==
  LET slots == SeqOfSet(FreeSlots) IN
  passes' = [p \in PassIds |->
    IF p \in ChunkSlots(chunk)
    THEN [IdlePass EXCEPT !.pc = "syncDevice", !.kind = "sweep",
                          !.dev = chunk[CHOOSE k \in 1 .. Len(chunk) : slots[k] = p]]
    ELSE passes[p]]

\* a tick of the main cron job: the devices needing sync are read, chunked,
\* and the first chunk is started (the model follows one sweep at a time)
SweepTick ==
  LET chunks == chunkArray(getDevicesNeedingSync, ConcurrencyLimit) IN
  /\ liveJobs[MainJob] > 0
  /\ ~sweep.active
  /\ chunks # <<>>
  /\ StartChunk(Head(chunks))
  /\ sweep' = [active |-> TRUE, chunks |-> Tail(chunks),
               current |-> ChunkSlots(Head(chunks))]
  /\ UNCHANGED <<now, ticks, started, dbDevices, operator, reconVars, timerVars, offline, sockets, wsVars>>

\* await Promise.allSettled(...) returned: the next chunk starts, or the sweep ends
SweepNext ==
  /\ sweep.active
  /\ sweep.current = {}
  /\ IF sweep.chunks = <<>>
     THEN sweep' = IdleSweep /\ UNCHANGED passes
     ELSE /\ StartChunk(Head(sweep.chunks))
          /\ sweep' = [sweep EXCEPT !.chunks = Tail(@),
                                    !.current = ChunkSlots(Head(sweep.chunks))]
  /\ UNCHANGED <<now, ticks, started, dbDevices, operator, reconVars, timerVars, offline, sockets, wsVars>>

(***************************************************************************)
(* DeviceSyncService.forceSyncAll                                          *)
(***************************************************************************)
\* Device.getActiveDevices()
getActiveDevices == SeqOfSet({d \in DeviceIds : dbDevices[d].exists /\ dbDevices[d].isActive})

\* up to await Promise.allSettled(devices.map(device => this.syncDevice(device.id)))
ForceSyncAll ==
  /\ ~operator.active
  /\ ~sweep.active
  /\ started < MaxStarts
  /\ Len(getActiveDevices) <= Cardinality(FreeSlots)
  /\ started' = started + 1
  /\ StartChunk(getActiveDevices)
  /\ operator' = [operator EXCEPT !.active = TRUE, !.rejected = 0,
                                  !.current = ChunkSlots(getActiveDevices),
                                  !.total = Len(getActiveDevices)]
  /\ UNCHANGED <<now, ticks, dbDevices, sweep, reconVars, timerVars, offline, sockets, wsVars>>

\* every call has settled: the results are counted by their status and the
\* summary is returned
ForceSyncAllReturn ==
  /\ operator.active
  /\ operator.current = {}
  /\ operator' = [operator EXCEPT
       !.active = FALSE,
       !.result = [total |-> operator.total,
                   successful |-> operator.total - operator.rejected,
                   failed |-> operator.rejected]]
  /\ UNCHANGED <<now, ticks, started, dbDevices, passes, sweep, reconVars, timerVars, offline, sockets, wsVars>>

(***************************************************************************)
(* ZKTecoService.syncUsersFromDevice, as called by the manual sync         *)
(***************************************************************************)
\* every enrolled user without an employee row gets an inactive one
AfterRosterSync(emps) ==
  [e \in EmployeeIds |->
     IF emps[e].exists THEN emps[e] ELSE [exists |-> TRUE, isActive |-> FALSE]]

SyncUsers(p) ==
  LET r == passes[p] IN
  /\ r.pc = "users"
  /\ zkDevices[r.dev] # 0
  /\ employees' = AfterRosterSync(employees)
  /\ SetPass(p, [r EXCEPT !.pc = SyncDeviceLogsEntry(r.dev), !.kind = "sync",
                          !.force = TRUE])
  /\ UNCHANGED <<now, ticks, started, deviceLog, dbDevices, ledger, sweep, operator>>
  /\ UNCHANGED <<timerVars, offline, sockets, wsVars>>

\* the device is not registered with zkService, or its terminal does not
\* answer: the route answers 500 and the logs are not synced
SyncUsersFail(p) ==
  LET r == passes[p] IN
  /\ r.pc = "users"
  /\ Finish(p)
  /\ UNCHANGED <<now, ticks, started, dbDevices, reconVars, timerVars, offline, sockets, wsVars>>

(***************************************************************************)
(* ZKTecoService.syncDeviceLogs                                            *)
(***************************************************************************)
\* getDeviceLogs returned: an empty result goes straight to the health update
Fetch(p) ==
  LET r == passes[p]
      logs == getDeviceLogs(r.dev, deviceLog[r.dev], now)
  IN  /\ r.pc = "fetch"
      /\ r.dev \notin offline
      /\ SetPass(p, [r EXCEPT !.batch = logs,
                              !.i = IF logs = <<>> THEN 0 ELSE 1,
                              !.pc = IF logs = <<>> THEN "zkOk" ELSE "emp"])
      /\ UNCHANGED <<now, ticks, started, dbDevices, sweep, operator, reconVars, timerVars, offline, sockets, wsVars>>

\* dbDevice.update({ lastSyncTime: new Date(), lastSyncStatus: 'success', ... })
RecordSuccess(p) ==
  LET r == passes[p] IN
  /\ r.pc = "zkOk"
  /\ dbDevices' = [dbDevices EXCEPT ![r.dev].lastSyncTime = now,
                                    ![r.dev].lastSyncStatus = "success",
                                    ![r.dev].lastSyncError = NoError]
  /\ Finish(p)
  /\ UNCHANGED <<now, ticks, started, reconVars, timerVars, offline, sockets, wsVars>>

\* the catch block of syncDeviceLogs: the device row is read again and marked
\* failed with the error's message, and the execution returns
RecordFailure(p, message) ==
  /\ dbDevices' = [dbDevices EXCEPT ![passes[p].dev].lastSyncTime = now,
                                    ![passes[p].dev].lastSyncStatus = "failed",
                                    ![passes[p].dev].lastSyncError = message]
  /\ Finish(p)

\* dbDevice.update of the try block rejected: the catch block reads the row
\* again and marks the device failed with the message of that error; if this
\* update rejects as well (again), syncDeviceLogs itself rejects
RecordSuccessFail(p, again) ==
  LET r == passes[p] IN
  /\ r.pc = "zkOk"
  /\ IF again
     THEN SetPass(p, [r EXCEPT !.pc = "thrown"]) /\ UNCHANGED <<dbDevices, sweep, operator>>
     ELSE RecordFailure(p, "persist")
  /\ UNCHANGED <<now, ticks, started, reconVars, timerVars, offline, sockets, wsVars>>

\* the rejection of syncDeviceLogs reaches whoever called it
Rejected(p) ==
  /\ passes[p].pc = "thrown"
  /\ Finish(p)
  /\ UNCHANGED <<now, ticks, started, dbDevices, reconVars, timerVars, offline, sockets, wsVars>>

\* getDeviceLogs threw: the terminal did not answer
FetchFail(p) ==
  LET r == passes[p] IN
  /\ r.pc = "fetch"
  /\ RecordFailure(p, "unreachable")
  /\ UNCHANGED <<now, ticks, started, reconVars, timerVars, offline, sockets, wsVars>>

(***************************************************************************)
(* getDeviceLogs and syncUsersFromDevice, one step per call to the         *)
(* terminal. The call of an execution of kind "manual" is                  *)
(* syncUsersFromDevice, that of an execution of kind "sync" getDeviceLogs. *)
(***************************************************************************)
\* the positions inside the two functions
CallPcs == {"read", "disconnect", "cleanup"}
AtCallEntry(r) == (r.kind = "sync" /\ r.pc = "fetch") \/ (r.kind = "manual" /\ r.pc = "users")

\* what a rejected zkInstance.disconnect() can leave of a connected socket:
\* still connected, or closed
AfterFailedDisconnect == BOOLEAN

\* the socket of the call's zkInstance goes from connected to closed
CloseSocket(r) == sockets' = [sockets EXCEPT ![r.dev] = IF r.zk THEN @ - 1 ELSE @]

\* zkInstance = new ZKTeco(...); await zkInstance.createSocket()
CreateSocket(p) ==
  LET r == passes[p] IN
  /\ AtCallEntry(r)
  /\ zkDevices[r.dev] # 0
  /\ r.dev \notin offline
  /\ sockets' = [sockets EXCEPT ![r.dev] = @ + 1]
  /\ SetPass(p, [r EXCEPT !.pc = "read", !.zk = TRUE])
  /\ UNCHANGED <<now, ticks, started, dbDevices, sweep, operator, reconVars, timerVars, offline, wsVars>>

\* createSocket rejected: the catch block is entered with zkInstance set
CreateSocketFail(p) ==
  LET r == passes[p] IN
  /\ AtCallEntry(r)
  /\ zkDevices[r.dev] # 0
  /\ SetPass(p, [r EXCEPT !.pc = "cleanup"])
  /\ UNCHANGED <<now, ticks, started, dbDevices, sweep, operator, reconVars, timerVars, offline, sockets, wsVars>>

\* await zkInstance.getAttendances() / getUsers()
ReadTerminal(p) ==
  LET r == passes[p] IN
  /\ r.pc = "read"
  /\ SetPass(p, [r EXCEPT !.pc = "disconnect", !.raw = deviceLog[r.dev]])
  /\ UNCHANGED <<now, ticks, started, dbDevices, sweep, operator, reconVars, timerVars, offline, sockets, wsVars>>

ReadTerminalFail(p) ==
  LET r == passes[p] IN
  /\ r.pc = "read"
  /\ SetPass(p, [r EXCEPT !.pc = "cleanup"])
  /\ UNCHANGED <<now, ticks, started, dbDevices, sweep, operator, reconVars, timerVars, offline, sockets, wsVars>>

\* await zkInstance.disconnect() of the try block, and the rest of the function:
\* getDeviceLogs returns the batch, syncUsersFromDevice saves the roster
Disconnect(p) ==
  LET r == passes[p]
      logs == getDeviceLogs(r.dev, r.raw, now)
  IN  /\ r.pc = "disconnect"
      /\ CloseSocket(r)
      /\ IF r.kind = "manual"
         THEN /\ employees' = AfterRosterSync(employees)
              /\ SetPass(p, [r EXCEPT !.pc = SyncDeviceLogsEntry(r.dev), !.kind = "sync",
                                      !.force = TRUE, !.zk = FALSE, !.raw = <<>>])
         ELSE /\ SetPass(p, [r EXCEPT !.batch = logs,
                                      !.i = IF logs = <<>> THEN 0 ELSE 1,
                                      !.pc = IF logs = <<>> THEN "zkOk" ELSE "emp",
                                      !.zk = FALSE, !.raw = <<>>])
              /\ UNCHANGED employees
      /\ operator' = IF r.kind = "manual" /\ SyncDeviceLogsEntry(r.dev) = "idle"
                      THEN [operator EXCEPT !.answer = "ok"] ELSE operator
      /\ UNCHANGED <<now, ticks, started, deviceLog, dbDevices, ledger, sweep>>
      /\ UNCHANGED <<timerVars, offline, wsVars>>

\* the disconnect of the try block rejected: the catch block is entered
DisconnectFail(p, closed) ==
  LET r == passes[p] IN
  /\ r.pc = "disconnect"
  /\ IF closed THEN CloseSocket(r) ELSE UNCHANGED sockets
  /\ SetPass(p, [r EXCEPT !.pc = "cleanup", !.zk = r.zk /\ ~closed])
  /\ UNCHANGED <<now, ticks, started, dbDevices, sweep, operator, reconVars, timerVars, offline, wsVars>>

\* the call throws: syncUsersFromDevice to the route, which answers 500,
\* getDeviceLogs to the catch block of syncDeviceLogs
Throw(p) ==
  IF passes[p].kind = "manual"
  THEN Finish(p) /\ UNCHANGED dbDevices
  ELSE RecordFailure(p, "unreachable")

\* the catch block: if (zkInstance) await zkInstance.disconnect(), then throw
Cleanup(p) ==
  LET r == passes[p] IN
  /\ r.pc = "cleanup"
  /\ CloseSocket(r)
  /\ Throw(p)
  /\ UNCHANGED <<now, ticks, started, reconVars, timerVars, offline, wsVars>>

\* the disconnect of the catch block rejected too: the error is logged
CleanupFail(p, closed) ==
  LET r == passes[p] IN
  /\ r.pc = "cleanup"
  /\ IF closed THEN CloseSocket(r) ELSE UNCHANGED sockets
  /\ Throw(p)
  /\ UNCHANGED <<now, ticks, started, reconVars, timerVars, offline, wsVars>>

(***************************************************************************)
(* ZKTecoService.processDeviceLogs, one step per suspension point          *)
(***************************************************************************)
CurLog(r) == r.batch[r.i]

\* continue with the next log of the batch, or leave the loop
NextLog(r) ==
  IF r.i < Len(r.batch)
  THEN [r EXCEPT !.i = @ + 1, !.pc = "emp", !.att = 0]
  ELSE [r EXCEPT !.pc = "zkOk", !.att = 0]

\* Attendance.findOne({ where: { employeeId, date } })
FindRecord(employeeId, date) ==
  LET match == {k \in 1 .. Len(ledger) :
                  ledger[k].employeeId = employeeId /\ ledger[k].date = date}
  IN  IF match = {} THEN 0 ELSE CHOOSE k \in match : \A j \in match : k <= j

\* the unique index on (employee_id, date) rejects a second row
UniqueViolation(employeeId, date) == FindRecord(employeeId, date) # 0

\* whether the pass activates the employee it read: if (!employee.isActive)
CountsActivation(isActive) == ~isActive

\* a lookup that finds an employee for every biometric id
AnyoneFound(u) == TRUE

\* Employee.findOne({ where: { biometricId: log.userId } }) returned a row
EmployeeFound(u) == u \in EmployeeIds /\ employees[u].exists

\* Employee.findOne({ where: { biometricId: log.userId } })
FindEmployee(p) ==
  LET r == passes[p]
      u == CurLog(r).userId
  IN  /\ r.pc = "emp"
      /\ IF ~EmployeeFound(u)
         THEN SetPass(p, NextLog([r EXCEPT !.skipped = @ + 1]))
         ELSE IF CountsActivation(employees[u].isActive)
              THEN SetPass(p, [r EXCEPT !.pc = "activate"])
              ELSE SetPass(p, [r EXCEPT !.pc = "att"])
      /\ UNCHANGED <<now, ticks, started, dbDevices, sweep, operator, reconVars, timerVars, offline, sockets, wsVars>>

\* employee.update({ isActive: true }); activated++
Activate(p) ==
  LET r == passes[p]
      u == CurLog(r).userId
  IN  /\ r.pc = "activate"
      /\ employees' = [employees EXCEPT ![u].isActive = TRUE]
      /\ SetPass(p, [r EXCEPT !.pc = "att", !.activated = @ + 1])
      /\ UNCHANGED <<now, ticks, started, deviceLog, dbDevices, ledger, sweep, operator>>
      /\ UNCHANGED <<timerVars, offline, sockets, wsVars>>

\* a record that is treated as never checked out
NeverCheckedOut(attendance) == FALSE

\* the test of the branches after the lookup: attendance.checkOutTime is set
HasCheckOut(attendance) == attendance.checkOutTime # NoTime

\* the lookup of the day's record and the branch taken on what it returned
FindAttendance(p) ==
  LET r == passes[p]
      log == CurLog(r)
      k == FindRecord(log.userId, DateOnly(log.timestamp))
  IN  /\ r.pc = "att"
      /\ IF k = 0
         THEN SetPass(p, [r EXCEPT !.pc = "create"])
         ELSE IF ~HasCheckOut(ledger[k])
              THEN SetPass(p, [r EXCEPT !.pc = "checkout", !.att = k])
              ELSE SetPass(p, NextLog([r EXCEPT !.skipped = @ + 1]))
      /\ UNCHANGED <<now, ticks, started, dbDevices, sweep, operator, reconVars, timerVars, offline, sockets, wsVars>>

\* Attendance.create({...}); a rejected insert leaves processDeviceLogs and
\* syncDeviceLogs through their catch blocks
Create(p) ==
  LET r == passes[p]
      log == CurLog(r)
  IN  /\ r.pc = "create"
      /\ IF UniqueViolation(log.userId, DateOnly(log.timestamp))
         THEN /\ RecordFailure(p, "unique")
              /\ UNCHANGED ledger
         ELSE /\ ledger' = Append(ledger,
                   NewAttendance(log.userId, r.dev, log.timestamp, log.verificationType,
                                 log.originalTime, log.sn))
              /\ SetPass(p, [r EXCEPT !.pc = "bcast", !.att = Len(ledger) + 1,
                                      !.processed = @ + 1])
              /\ UNCHANGED <<dbDevices, sweep, operator>>
      /\ UNCHANGED <<now, ticks, started, deviceLog, employees>>
      /\ UNCHANGED <<timerVars, offline, sockets, wsVars>>

\* attendance.checkOutTime = logTime; attendance.status = 'absent'; save()
CheckOut(p) ==
  LET r == passes[p]
      log == CurLog(r)
  IN  /\ r.pc = "checkout"
      /\ ledger' = [ledger EXCEPT ![r.att] =
           beforeSave([@ EXCEPT !.checkOutTime = log.timestamp, !.status = "absent"])]
      /\ SetPass(p, [r EXCEPT !.pc = "bcast"])
      /\ UNCHANGED <<now, ticks, started, deviceLog, dbDevices, employees, sweep, operator>>
      /\ UNCHANGED <<timerVars, offline, sockets, wsVars>>

(***************************************************************************)
(* PUT /attendance/:id                                                     *)
(***************************************************************************)
\* times of day an operator corrects a record to: before and just after the
\* expected start, just before and after the expected end
EditOffsets == {7 * HourMs, 8 * HourMs + 30 * 1000, 17 * HourMs - 30 * 1000, 18 * HourMs}

\* attendance.update({ checkInTime | checkOutTime }) on record k, with the
\* beforeSave hook
EditAttendance(k, field, t) ==
  /\ k \in 1 .. Len(ledger)
  /\ Busy = {}
  /\ ledger' = [ledger EXCEPT ![k] =
       beforeSave(IF field = "checkInTime" THEN [@ EXCEPT !.checkInTime = t]
                  ELSE [@ EXCEPT !.checkOutTime = t])]
  /\ UNCHANGED <<now, ticks, started, deviceLog, dbDevices, employees, passes, sweep, operator>>
  /\ UNCHANGED <<timerVars, offline, sockets, wsVars>>

(***************************************************************************)
(* WebSocketService                                                        *)
(***************************************************************************)
\* users that may connect; an id is a string of digits, all of one length as
\* UUIDs are. User ids begin with 1, Employee ids with 2.
WsUsers == {[id |-> <<1, 1>>, role |-> "employee"], [id |-> <<1, 2>>, role |-> "employee"],
            [id |-> <<1, 3>>, role |-> "hr_manager"], [id |-> <<1, 4>>, role |-> "finance"],
            [id |-> <<1, 5>>, role |-> "admin"], [id |-> <<1, 6>>, role |-> "supervisor"]}

\* Employee.id of the employee with the given biometric id
EmployeePk(e) == <<2, e>>

\* channel names a client may send, split at ':'; the last segment of an
\* employee channel is any string the client likes
Channels == {<<"attendance", "all">>, <<"attendance", "employee", <<1, 1>> >>,
             <<"attendance", "employee", <<1, 2>> >>,
             <<"attendance", "employee", <<9, 1, 1>> >>,
             <<"attendance", "employee", <<2, 1>> >>,
             <<"devices", "all">>, <<"employees", "all">>, <<"reports", "all">>,
             <<"payroll", "all">>}

\* sockets whose send() throws, as chosen for one handler run
Brokens == {{}, {1}}

\* String.prototype.endsWith on digit strings
IsSuffix(a, b) == Len(a) <= Len(b) /\ SubSeq(b, Len(b) - Len(a) + 1, Len(b)) = a

\* channel.endsWith(user.id): an id holds no ':', so it ends the last segment
endsWith(channel, id) == Len(channel) >= 3 /\ IsSuffix(id, channel[Len(channel)])

AttendanceAllRoles == {"admin", "hr_manager", "finance"}
DeviceRoles == {"admin", "hr_manager"}
EmployeeChannelRoles == {"admin", "hr_manager"}
ReportRoles == {"admin", "hr_manager", "finance"}

hasChannelPermission(user, channel) ==
  LET type == channel[1]
      scope == channel[2]
  IN  CASE type = "attendance" ->
             IF scope = "all" THEN user.role \in AttendanceAllRoles
             ELSE IF scope = "employee"
                  THEN user.role = "employee" /\ endsWith(channel, user.id)
                  ELSE FALSE
        [] type = "devices" -> user.role \in DeviceRoles
        [] type = "employees" -> user.role \in EmployeeChannelRoles
        [] type = "reports" -> user.role \in ReportRoles
        [] OTHER -> FALSE

\* the channels subscribeToChannels asks for, in order
InitialChannels(user) ==
  CASE user.role = "admin" -> << <<"attendance", "all">>, <<"devices", "all">>,
                                 <<"employees", "all">>, <<"reports", "all">> >>
    [] user.role = "hr_manager" -> << <<"attendance", "all">>, <<"employees", "all">> >>
    [] user.role = "finance" -> << <<"attendance", "all">>, <<"reports", "all">> >>
    [] user.role = "employee" -> << <<"attendance", "employee", user.id>> >>
    [] OTHER -> << >>

\* the service's mutable state as one value, threaded through a handler
WsState == [clients |-> clients, sent |-> sent, open |-> {c \in Conns : socks[c].open}]

\* a message as written to a socket; via is the channel of the broadcast that
\* sent it (not part of the payload)
Message(type, channel, data) == [type |-> type, channel |-> channel, data |-> data, via |-> <<>>]

HasClient(st, id) == \E e \in st.clients : e.id = id
ClientOf(st, id) == CHOOSE e \in st.clients : e.id = id

\* sendToClient; broken is the set of sockets whose send() throws
sendToClient(st, id, message, broken) ==
  IF ~HasClient(st, id) \/ ClientOf(st, id).ws \notin st.open
  THEN st
  ELSE IF ClientOf(st, id).ws \in broken
       THEN [st EXCEPT !.clients = @ \ {ClientOf(st, id)}]
       ELSE [st EXCEPT !.sent[ClientOf(st, id).ws] = Append(@, message)]

\* client.subscriptions.add(channel)
AddSubscription(st, id, channel) ==
  [st EXCEPT !.clients = (@ \ {ClientOf(st, id)}) \cup
     {[ClientOf(st, id) EXCEPT !.subscriptions = @ \cup {channel}]}]

\* a permission check that lets everybody in
AnyoneAllowed(user, channel) == TRUE

\* whether handleSubscription lets the client in
SubscriptionAllowed(user, channel) == hasChannelPermission(user, channel)

handleSubscription(st, id, channel, broken) ==
  IF ~HasClient(st, id) THEN st
  ELSE IF ~SubscriptionAllowed(ClientOf(st, id).user, channel)
       THEN sendToClient(st, id, Message("error", channel, 0), broken)
       ELSE sendToClient(AddSubscription(st, id, channel), id,
                         Message("subscribed", channel, 0), broken)

handleUnsubscription(st, id, channel, broken) ==
  IF ~HasClient(st, id) THEN st
  ELSE sendToClient(
         [st EXCEPT !.clients = (@ \ {ClientOf(st, id)}) \cup
            {[ClientOf(st, id) EXCEPT !.subscriptions = @ \ {channel}]}],
         id, Message("unsubscribed", channel, 0), broken)

RECURSIVE subscribeToChannels(_, _, _, _)
subscribeToChannels(st, id, channels, broken) ==
  IF channels = <<>> THEN st
  ELSE subscribeToChannels(handleSubscription(st, id, Head(channels), broken),
                           id, Tail(channels), broken)

\* the clients broadcastToChannel sends to
ChannelTargets(st, channel) == {e \in st.clients : channel \in e.subscriptions}

\* the value sendToClient returns
sendSucceeds(st, id, broken) ==
  /\ HasClient(st, id)
  /\ ClientOf(st, id).ws \in st.open
  /\ ClientOf(st, id).ws \notin broken

\* a loop that gives up the broadcast
RECURSIVE SendToEach(_, _, _, _)
SendToNone(st, ids, message, broken) == st

SendToEach(st, ids, message, broken) ==
  IF ids = {} THEN st
  ELSE LET id == CHOOSE x \in ids : TRUE
       IN  SendToEach(sendToClient(st, id, message, broken), ids \ {id}, message, broken)

broadcastToChannel(st, channel, message, broken) ==
  SendToEach(st, {e.id : e \in ChannelTargets(st, channel)},
             [message EXCEPT !.via = channel], broken)

\* sentCount as broadcastToChannel returns it: one for every send that
\* returned true
RECURSIVE CountSent(_, _, _)
CountSent(st, ids, broken) ==
  IF ids = {} THEN 0
  ELSE LET id == CHOOSE x \in ids : TRUE
       IN  (IF sendSucceeds(st, id, broken) THEN 1 ELSE 0) +
           CountSent(sendToClient(st, id, Message("update", <<>>, 0), broken), ids \ {id}, broken)

sentCount(st, channel, broken) ==
  CountSent(st, {e.id : e \in ChannelTargets(st, channel)}, broken)

broadcastAttendanceUpdate(st, attendance, broken) ==
  LET message == Message("attendance_update", <<>>, attendance)
      st1 == broadcastToChannel(st, <<"attendance", "all">>, message, broken)
  IN  broadcastToChannel(st1, <<"attendance", "employee", EmployeePk(attendance.employeeId)>>,
                         message, broken)

(***************************************************************************)
(* WebSocket handlers                                                      *)
(***************************************************************************)
\* clientId = `${user.id}_${Date.now()}`
ClientId(user, t) == <<user.id, t>>

\* this.clients.set(clientId, {...})
SetClient(cl, entry) == {e \in cl : e.id # entry.id} \cup {entry}

\* handleConnection: the map entry, the welcome message, the role's channels
WsConnect(c, user, broken) ==
  LET id == ClientId(user, now)
      st0 == [clients |-> SetClient(clients, [id |-> id, ws |-> c, user |-> user,
                                               subscriptions |-> {}]),
              sent |-> [sent EXCEPT ![c] = <<>>],
              open |-> {x \in Conns : socks[x].open} \cup {c}]
      st1 == sendToClient(st0, id, Message("connection", <<>>, user.id), broken)
      st2 == subscribeToChannels(st1, id, InitialChannels(user), broken)
  IN  /\ ~socks[c].open
      /\ wsOps < MaxMsgs
      /\ socks' = [socks EXCEPT ![c] = [open |-> TRUE, cid |-> id]]
      /\ clients' = st2.clients
      /\ sent' = st2.sent
      /\ wsOps' = wsOps + 1
      /\ UNCHANGED <<now, ticks, started, dbDevices, passes, sweep, operator, reconVars, timerVars, offline, sockets>>

\* a handler that runs for a message received on socket c
WsRequest(c, st) ==
  /\ socks[c].open
  /\ wsOps < MaxMsgs
  /\ clients' = st.clients
  /\ sent' = st.sent
  /\ wsOps' = wsOps + 1
  /\ UNCHANGED <<now, ticks, started, dbDevices, passes, sweep, operator, socks, reconVars, timerVars, offline, sockets>>

WsSubscribe(c, channel, broken) ==
  WsRequest(c, handleSubscription(WsState, socks[c].cid, channel, broken))

WsUnsubscribe(c, channel, broken) ==
  WsRequest(c, handleUnsubscription(WsState, socks[c].cid, channel, broken))

WsPing(c, broken) ==
  WsRequest(c, sendToClient(WsState, socks[c].cid, Message("pong", <<>>, 0), broken))

\* handleDisconnection / handleError: this.clients.delete(clientId)
WsClose(c) ==
  /\ socks[c].open
  /\ clients' = {e \in clients : e.id # socks[c].cid}
  /\ socks' = [socks EXCEPT ![c].open = FALSE]
  /\ UNCHANGED <<now, ticks, started, dbDevices, passes, sweep, operator, sent, wsOps, reconVars, timerVars, offline, sockets>>

\* broadcastToChannel called for a channel (broadcastDeviceUpdate and others)
WsBroadcastToChannel(channel, broken) ==
  LET st == broadcastToChannel(WsState, channel, Message("update", <<>>, 0), broken)
  IN  /\ wsOps < MaxMsgs
      /\ clients' = st.clients
      /\ sent' = st.sent
      /\ wsOps' = wsOps + 1
      /\ UNCHANGED <<now, ticks, started, dbDevices, passes, sweep, operator, socks, reconVars, timerVars, offline, sockets>>

\* broadcastAttendanceUpdate called for a record of employee e, as the
\* broadcast block of processDeviceLogs does
WsAttendanceUpdate(e, broken) ==
  LET st == broadcastAttendanceUpdate(WsState, [employeeId |-> e], broken)
  IN  /\ wsOps < MaxMsgs
      /\ clients' = st.clients
      /\ sent' = st.sent
      /\ wsOps' = wsOps + 1
      /\ UNCHANGED <<now, ticks, started, dbDevices, passes, sweep, operator, socks, reconVars, timerVars, offline, sockets>>

\* the broadcast block of processDeviceLogs: the record is read again with
\* its employee and handed to broadcastAttendanceUpdate
Broadcast(p) ==
  LET r == passes[p]
      st == broadcastAttendanceUpdate(WsState, ledger[r.att], {})
  IN  /\ r.pc = "bcast"
      /\ clients' = st.clients
      /\ sent' = st.sent
      /\ SetPass(p, NextLog(r))
      /\ UNCHANGED <<now, ticks, started, deviceLog, dbDevices, employees, ledger, sweep, operator>>
      /\ UNCHANGED <<socks, wsOps, timerVars, offline, sockets>>

(***************************************************************************)
(* routes/zktecoWebhook.js: POST /zkteco/attendance/push                   *)
(***************************************************************************)
\* getVerificationMethod of the webhook route, for the numeric codes
getVerificationMethod(type) ==
  CASE type = 0 -> "password"
    [] type = 1 -> "fingerprint"
    [] type = 2 -> "card"
    [] type = 3 -> "password"
    [] type = 4 -> "fingerprint"
    [] type = 15 -> "face"
    [] OTHER -> "fingerprint"

\* the terminal pushes entry k of its log; the device row is found by serial
Push(d, k) ==
  LET entry == deviceLog[d][k] IN
  /\ dbDevices[d].exists
  /\ k \in 1 .. Len(deviceLog[d])
  /\ entry.user_id # 0
  /\ started < MaxStarts
  /\ Cardinality(Busy) < MaxConcurrent
  /\ started' = started + 1
  /\ passes' = [passes EXCEPT ![LowestFree] =
       [IdlePass EXCEPT !.pc = "pushEmp", !.kind = "push", !.dev = d,
                        !.i = 1,
                        !.batch = <<[userId |-> entry.user_id,
                                     timestamp |-> entry.record_time,
                                     verificationType |-> getVerificationMethod(entry.type),
                                     deviceId |-> d,
                                     originalTime |-> entry.record_time,
                                     sn |-> 0]>>]]
  /\ UNCHANGED <<now, ticks, dbDevices, sweep, operator, reconVars, timerVars, offline, sockets, wsVars>>

\* employee lookup (404 when unknown) and lookup of the day's record
PushFind(p) ==
  LET r == passes[p]
      log == CurLog(r)
      k == FindRecord(log.userId, DateOnly(log.timestamp))
  IN  /\ r.pc = "pushEmp"
      /\ IF log.userId \notin EmployeeIds \/ ~employees[log.userId].exists
         THEN Finish(p)
         ELSE /\ UNCHANGED <<sweep, operator>>
              /\ IF k = 0 THEN SetPass(p, [r EXCEPT !.pc = "pushCreate"])
                 ELSE SetPass(p, [r EXCEPT !.pc = "pushSave", !.att = k,
                        !.processed = IF ~HasCheckOut(ledger[k]) THEN 1 ELSE 0])
      /\ UNCHANGED <<now, ticks, started, dbDevices, reconVars, timerVars, offline, sockets, wsVars>>

\* Attendance.create of the webhook; a rejected insert answers 500
PushCreate(p) ==
  LET r == passes[p]
      log == CurLog(r)
  IN  /\ r.pc = "pushCreate"
      /\ IF UniqueViolation(log.userId, DateOnly(log.timestamp))
         THEN UNCHANGED ledger
         ELSE ledger' = Append(ledger,
                NewAttendance(log.userId, r.dev, log.timestamp, log.verificationType,
                              log.originalTime, log.sn))
      /\ Finish(p)
      /\ UNCHANGED <<now, ticks, started, deviceLog, dbDevices, employees>>
      /\ UNCHANGED <<timerVars, offline, sockets, wsVars>>

\* attendance.save() of the webhook: the check-out is set when the record
\* read before had none (checkInTime is never null in the ledger)
PushSave(p) ==
  LET r == passes[p]
      log == CurLog(r)
  IN  /\ r.pc = "pushSave"
      /\ ledger' = [ledger EXCEPT ![r.att] =
           IF r.processed = 1 THEN beforeSave([@ EXCEPT !.checkOutTime = log.timestamp])
           ELSE beforeSave(@)]
      /\ Finish(p)
      /\ UNCHANGED <<now, ticks, started, deviceLog, dbDevices, employees>>
      /\ UNCHANGED <<timerVars, offline, sockets, wsVars>>

(***************************************************************************)
(* Specifications                                                          *)
(***************************************************************************)
\* the steps of the executions of syncDeviceLogs in progress
PassStep ==
  \/ \E p \in PassIds : Fetch(p)
  \/ \E p \in PassIds : FetchFail(p)
  \/ \E p \in PassIds : RecordSuccess(p)
  \/ \E p \in PassIds : FindEmployee(p)
  \/ \E p \in PassIds : Activate(p)
  \/ \E p \in PassIds : FindAttendance(p)
  \/ \E p \in PassIds : Create(p)
  \/ \E p \in PassIds : CheckOut(p)
  \/ \E p \in PassIds : Broadcast(p)

\* one terminal; timers, cron job, operator and webhook start handlers whenever
\* they like, so executions overlap at their suspension points
Next ==
  \/ \E d \in DeviceIds, u \in UserIds, gap \in ScanGaps, ty \in VerifyTypes :
       DeviceScan(d, u, gap, ty)
  \/ \E delta \in ClockSteps : HostTick(delta)
  \/ GetDevices
  \/ \E d \in DeviceIds : IntervalTick(d)
  \/ \E d \in DeviceIds : CronTick(d)
  \/ \E d \in DeviceIds : ManualSync(d)
  \/ \E d \in DeviceIds, k \in 1 .. MaxScans : Push(d, k)
  \/ \E p \in PassIds : PushFind(p)
  \/ \E p \in PassIds : PushCreate(p)
  \/ \E p \in PassIds : PushSave(p)
  \/ \E p \in PassIds : SyncDevice(p)
  \/ \E p \in PassIds : SyncUsers(p)
  \/ \E p \in PassIds : SyncUsersFail(p)
  \/ PassStep

Spec == Init /\ [][Next]_vars

\* the same terminal synced by its interval timer alone, when every sync has
\* returned before the next tick; the host clock starts on either side of the
\* terminal's
InitInTurn == InitWith({1}, HostStartsEitherSide)

NextInTurn ==
  \/ \E d \in DeviceIds, u \in UserIds, gap \in ScanGaps, ty \in VerifyTypes :
       DeviceScan(d, u, gap, ty)
  \/ \E delta \in ClockSteps : HostTick(delta)
  \/ GetDevices
  \/ \E d \in DeviceIds : Busy = {} /\ IntervalTick(d)
  \/ PassStep

SpecInTurn == InitInTurn /\ [][NextInTurn]_vars

\* one terminal synced by its interval timer, each tick after the sync before
\* it has returned, while the terminal pushes its newest scan to the webhook
\* at any moment; the scans are fingerprint scans of enrolled users, each at
\* the edge of the window of the one before
NextOverlap ==
  \/ \E d \in DeviceIds, u \in EmployeeIds : DeviceScan(d, u, LookBackMs, 1)
  \/ GetDevices
  \/ \E d \in DeviceIds : SyncsInProgress(d) = {} /\ IntervalTick(d)
  \/ \E d \in DeviceIds : Push(d, Len(deviceLog[d]))
  \/ \E p \in PassIds : PushFind(p)
  \/ \E p \in PassIds : PushCreate(p)
  \/ \E p \in PassIds : PushSave(p)
  \/ PassStep

SpecOverlap == InitWith({1}, {ScanBase + HourMs}) /\ [][NextOverlap]_vars

\* one employee's terminal synced in turn while the host clock moves on by
\* part of a working day between two syncs: the scan that opened the record
\* closes it at the next sync
ShiftSteps == {30 * 1000, 239 * MinuteMs, 240 * MinuteMs, 479 * MinuteMs,
               480 * MinuteMs, 481 * MinuteMs}

NextShift ==
  \/ \E d \in DeviceIds : DeviceScan(d, 1, LookBackMs, 1)
  \/ \E delta \in ShiftSteps : HostTick(delta)
  \/ GetDevices
  \/ \E d \in DeviceIds : Busy = {} /\ IntervalTick(d)
  \/ PassStep

SpecShift == InitWith({1}, {ScanBase + HourMs}) /\ [][NextShift]_vars

\* one terminal that operators deactivate, reactivate and update while its
\* timer, its cron job and manual requests start syncs
NextDeactivate ==
  \/ \E d \in DeviceIds, u \in EmployeeIds : DeviceScan(d, u, LookBackMs, 1)
  \/ GetDevices
  \/ \E d \in DeviceIds : DeleteDevice(d)
  \/ \E d \in DeviceIds, active \in BOOLEAN, critical \in BOOLEAN :
       SetDeviceActive(d, active, critical)
  \/ \E d \in DeviceIds : UpdateDevice(d, DefaultSyncInterval, TRUE)
  \/ \E d \in DeviceIds : Busy = {} /\ IntervalTick(d)
  \/ \E d \in DeviceIds : Busy = {} /\ CronTick(d)
  \/ \E d \in DeviceIds : Busy = {} /\ ManualSync(d)
  \/ \E p \in PassIds : SyncDevice(p)
  \/ \E p \in PassIds : SyncUsers(p)
  \/ \E p \in PassIds : SyncUsersFail(p)
  \/ PassStep

SpecDeactivate == InitWith({1}, {ScanBase + HourMs}) /\ [][NextDeactivate]_vars

\* one terminal synced by its timer and by manual requests, one call at a
\* time, with every call to the terminal a step that can fail, and the
\* update of the device row as well
NextSession ==
  \/ \E d \in DeviceIds, u \in EmployeeIds : DeviceScan(d, u, LookBackMs, 1)
  \/ GetDevices
  \/ \E d \in DeviceIds : Busy = {} /\ IntervalTick(d)
  \/ \E d \in DeviceIds : Busy = {} /\ ManualSync(d)
  \/ \E p \in PassIds : CreateSocket(p)
  \/ \E p \in PassIds : CreateSocketFail(p)
  \/ \E p \in PassIds : ReadTerminal(p)
  \/ \E p \in PassIds : ReadTerminalFail(p)
  \/ \E p \in PassIds : Disconnect(p)
  \/ \E p \in PassIds, closed \in AfterFailedDisconnect : DisconnectFail(p, closed)
  \/ \E p \in PassIds : Cleanup(p)
  \/ \E p \in PassIds, closed \in AfterFailedDisconnect : CleanupFail(p, closed)
  \/ \E p \in PassIds : RecordSuccess(p)
  \/ \E p \in PassIds, again \in BOOLEAN : RecordSuccessFail(p, again)
  \/ \E p \in PassIds : Rejected(p)
  \/ \E p \in PassIds : FindEmployee(p)
  \/ \E p \in PassIds : Activate(p)
  \/ \E p \in PassIds : FindAttendance(p)
  \/ \E p \in PassIds : Create(p)
  \/ \E p \in PassIds : CheckOut(p)
  \/ \E p \in PassIds : Broadcast(p)

SpecSession == InitWith({1}, {ScanBase + HourMs}) /\ [][NextSession]_vars

\* one terminal that stops and starts answering while its interval timer keeps
\* ticking; a sync fails when the terminal does not answer
HandlerStep ==
  \/ \E p \in PassIds : Fetch(p)
  \/ \E p \in PassIds : passes[p].dev \in offline /\ FetchFail(p)
  \/ \E p \in PassIds : RecordSuccess(p)
  \/ \E p \in PassIds : FindEmployee(p)
  \/ \E p \in PassIds : Activate(p)
  \/ \E p \in PassIds : FindAttendance(p)
  \/ \E p \in PassIds : Create(p)
  \/ \E p \in PassIds : CheckOut(p)
  \/ \E p \in PassIds : Broadcast(p)

NextRetry ==
  \/ \E d \in DeviceIds : DeviceScan(d, 1, LookBackMs, 1)
  \/ \E delta \in ClockSteps : HostTick(delta)
  \/ GetDevices
  \/ \E d \in DeviceIds : TerminalDown(d)
  \/ \E d \in DeviceIds : TerminalUp(d)
  \/ \E d \in DeviceIds : LaterTick(d)
  \/ HandlerStep

\* timers fire again and again, and a handler that can go on does
SpecRetry ==
  /\ InitWith({1}, {ScanBase + HourMs})
  /\ [][NextRetry]_vars
  /\ WF_vars(\E d \in DeviceIds : LaterTick(d))
  /\ WF_vars(HandlerStep)

\* one employee's records, written by syncs in turn and corrected by operators
NextEdit ==
  \/ \E d \in DeviceIds : DeviceScan(d, 1, LookBackMs, 1)
  \/ GetDevices
  \/ \E d \in DeviceIds : Busy = {} /\ IntervalTick(d)
  \/ PassStep
  \/ \E k \in 1 .. MaxScans, field \in {"checkInTime", "checkOutTime"}, o \in EditOffsets :
       k <= Len(ledger) /\ EditAttendance(k, field, ledger[k].date * DayMs + o)

SpecEdit == InitWith({1}, {ScanBase + HourMs}) /\ [][NextEdit]_vars

\* the timers of two devices under the requests that manage them
SchedDevices == {1, 2}
SyncIntervalChoices == {60, 600}

NextSched ==
  \/ GetDevices
  \/ \E d \in SchedDevices, s \in SyncIntervalChoices : CreateDevice(d, s)
  \/ \E d \in SchedDevices, s \in SyncIntervalChoices, critical \in BOOLEAN :
       UpdateDevice(d, s, critical)
  \/ \E d \in SchedDevices : DeleteDevice(d)
  \/ \E d \in SchedDevices, s \in SyncIntervalChoices : UpdateDeviceSyncInterval(d, s)

SpecSched == Init /\ [][NextSched]_vars

\* four terminals with empty logs under the sweep and their own timers; the
\* first of them may stop answering
FaultyDevices == {1}

InitSweep == InitWith(DeviceIds, HostStarts)

NextSweep ==
  \/ GetDevices
  \/ \E d \in FaultyDevices : TerminalDown(d)
  \/ SweepTick
  \/ SweepNext
  \/ \E d \in DeviceIds : IntervalTick(d)
  \/ \E p \in PassIds : SyncDevice(p)
  \/ \E p \in PassIds : Fetch(p)
  \/ \E p \in PassIds : FetchFail(p)
  \/ \E p \in PassIds : RecordSuccess(p)

SpecSweep == InitSweep /\ [][NextSweep]_vars

\* the WebSocket server alone
NextWS ==
  \/ \E delta \in ClockSteps : HostTick(delta)
  \/ \E c \in Conns, user \in WsUsers, broken \in Brokens : WsConnect(c, user, broken)
  \/ \E c \in Conns, channel \in Channels, broken \in Brokens : WsSubscribe(c, channel, broken)
  \/ \E c \in Conns, channel \in Channels, broken \in Brokens : WsUnsubscribe(c, channel, broken)
  \/ \E c \in Conns, broken \in Brokens : WsPing(c, broken)
  \/ \E c \in Conns : WsClose(c)
  \/ \E channel \in Channels, broken \in Brokens : WsBroadcastToChannel(channel, broken)

SpecWS == Init /\ [][NextWS]_vars

\* two terminals that come and go while the operator syncs one device or all
\* of them, one request after the other
NextForce ==
  \/ \E d \in DeviceIds : DeviceScan(d, 1, LookBackMs, 1)
  \/ GetDevices
  \/ \E d \in DeviceIds : TerminalDown(d)
  \/ \E d \in DeviceIds : TerminalUp(d)
  \/ \E d \in DeviceIds : Busy = {} /\ ~operator.active /\ ManualSync(d)
  \/ Busy = {} /\ ForceSyncAll
  \/ ForceSyncAllReturn
  \/ \E p \in PassIds : passes[p].dev \notin offline /\ SyncUsers(p)
  \/ \E p \in PassIds : passes[p].dev \in offline /\ SyncUsersFail(p)
  \/ \E p \in PassIds : SyncDevice(p)
  \/ HandlerStep

SpecForce == InitWith({1, 2}, {ScanBase + HourMs}) /\ [][NextForce]_vars

\* the account employee e logs in with: a row of table users with role
\* employee; User.id and Employee.id are generated apart and no column of
\* either table holds the other
AccountOf(e) == [id |-> <<1, e>>, role |-> "employee"]

\* the connections of the employees' accounts while records of the employees
\* are broadcast
NextDelivery ==
  \/ \E c \in Conns, e \in EmployeeIds : WsConnect(c, AccountOf(e), {})
  \/ \E c \in Conns, e \in EmployeeIds :
       WsSubscribe(c, <<"attendance", "employee", EmployeePk(e)>>, {})
  \/ \E c \in Conns : WsClose(c)
  \/ \E e \in EmployeeIds : WsAttendanceUpdate(e, {})

SpecDelivery == InitWith({1}, {ScanBase + HourMs}) /\ [][NextDelivery]_vars

\* a user whose id is the id of employee 1 as well: the channel that
\* subscribeToChannels gives this user is the one broadcastAttendanceUpdate
\* publishes the records of employee 1 on
SameIdUser == [id |-> EmployeePk(1), role |-> "employee"]

\* broadcasts to the connections of an employee, an HR manager and an admin;
\* a send can fail only inside a broadcast, and the host clock moves on once
BroadcastUsers == {u \in WsUsers : u.id \in {<<1, 3>>, <<1, 5>>}} \cup {SameIdUser}
BroadcastChannels == {<<"attendance", "all">>, <<"attendance", "employee", EmployeePk(1)>>}

NextBroadcast ==
  \/ \E delta \in ClockSteps : ticks = 0 /\ HostTick(delta)
  \/ \E c \in Conns, user \in BroadcastUsers : WsConnect(c, user, {})
  \/ \E c \in Conns, channel \in BroadcastChannels : WsSubscribe(c, channel, {})
  \/ \E c \in Conns, channel \in BroadcastChannels : WsUnsubscribe(c, channel, {})
  \/ \E c \in Conns : WsClose(c)
  \/ \E channel \in BroadcastChannels, broken \in Brokens : WsBroadcastToChannel(channel, broken)
  \/ \E e \in EmployeeIds, broken \in Brokens : WsAttendanceUpdate(e, broken)

SpecBroadcast == InitWith({1}, {ScanBase + HourMs}) /\ [][NextBroadcast]_vars

(***************************************************************************)
(* Properties                                                              *)
(***************************************************************************)
Records == 1 .. Len(ledger)

\* C1: once a scan of a known employee made on a calendar date has been
\* reconciled, exactly one attendance record exists for that employee and
\* that date, whichever handlers (interval timer, cron job, manual sync,
\* webhook push) ran and however they interleaved.
C1_OneRecordPerEmployeeAndDate ==
  \A k \in Records :
    Cardinality({j \in Records :
                   /\ ledger[j].employeeId = ledger[k].employeeId
                   /\ ledger[j].date = DateOnly(ledger[k].rawOriginalTime)}) = 1

\* C2: in every record written by a device sync, once check-in and check-out
\* are both set the check-in is not later than the check-out, also when one
\* fetched batch holds two scans of the same employee.
C2_CheckInNotAfterCheckOut ==
  \A k \in Records :
    (ledger[k].checkInTime # NoTime /\ ledger[k].checkOutTime # NoTime)
      => ledger[k].checkInTime <= ledger[k].checkOutTime

\* a record of the ledger was created from this scan of the batch
AlreadyReconciled(log) ==
  \E k \in Records : ledger[k].deviceId = log.deviceId /\ ledger[k].rawSn = log.sn

\* C3: a sync that meets a scan an earlier sync already reconciled leaves the
\* ledger as it is: the scan becomes neither the check-out of the record it
\* created nor a new record.
C3_ReconciledScanIsLeftAlone ==
  [][\A p \in PassIds :
       (/\ passes[p].kind = "sync"
        /\ passes[p].pc \in {"create", "checkout"}
        /\ passes'[p] # passes[p]
        /\ AlreadyReconciled(CurLog(passes[p])))
         => ledger' = ledger]_vars

\* C4: at no time are two executions of syncDeviceLogs in progress for the
\* same device, whether started by the interval timer, the cron job, the
\* sweep or a manual sync.
C4_OneSyncPerDevice ==
  \A d \in DeviceIds : Cardinality(SyncsInProgress(d)) <= 1

\* C5: after any sequence of registrations, timer starts and stops and device
\* updates, at most one recurring timer is live for each device.
C5_OneTimerPerDevice ==
  \A d \in DeviceIds : liveIntervals[d] + liveJobs[d] <= 1

\* the authorization the channels are meant to have
ChannelIsFor(user, channel) ==
  IF channel = <<"attendance", "all">> THEN user.role \in {"admin", "hr_manager", "finance"}
  ELSE IF channel[1] = "attendance" /\ channel[2] = "employee"
       THEN user.role = "employee" /\ Len(channel) = 3 /\ channel[3] = user.id
  ELSE IF channel \in {<<"devices", "all">>, <<"employees", "all">>}
       THEN user.role \in {"admin", "hr_manager"}
  ELSE IF channel = <<"reports", "all">> THEN user.role \in {"admin", "hr_manager", "finance"}
  ELSE FALSE

\* the user who connected on socket c
SocketUser(c) == CHOOSE u \in WsUsers : u.id = socks[c].cid[1]

\* C6: for a channel the connection's role does not authorize, a subscribe
\* request is answered with an error on that connection, the channel is never
\* in a subscription set of that user, and no broadcast on the channel is
\* ever written to the connection.
C6_ChannelAuthorization ==
  [][/\ \A c \in Conns, channel \in Channels, broken \in Brokens :
          (/\ WsSubscribe(c, channel, broken)
           /\ ~ChannelIsFor(SocketUser(c), channel)
           /\ c \notin broken)
            => sent'[c] = Append(sent[c], Message("error", channel, 0))
     /\ \A e \in clients' : \A channel \in e.subscriptions : ChannelIsFor(e.user, channel)
     /\ \A c \in Conns : socks'[c].open =>
          \A k \in 1 .. Len(sent'[c]) :
            sent'[c][k].via # <<>> => ChannelIsFor(SocketUser(c)', sent'[c][k].via)]_vars

\* the devices the sweep in progress has not started yet
QueuedDevices ==
  UNION {{sweep.chunks[i][k] : k \in 1 .. Len(sweep.chunks[i])} : i \in 1 .. Len(sweep.chunks)}

\* C7: a failed or hung getDeviceLogs of device A changes no health field of
\* another device B, and B's sync is never kept waiting for A: no device is
\* queued in the sweep behind a call that hangs on another device's terminal.
C7_FailureIsolation ==
  [][/\ \A p \in PassIds :
          (passes[p].pc = "fetch" /\ passes'[p] # passes[p])
            => \A b \in DeviceIds \ {passes[p].dev} : dbDevices'[b] = dbDevices[b]
     /\ \A b \in QueuedDevices' :
          ~\E p \in sweep'.current :
              /\ passes'[p].pc = "fetch"
              /\ passes'[p].dev \in offline'
              /\ passes'[p].dev # b]_vars

\* positions of the entries of a terminal's log that carry a user id and a time
ValidScans(log) == {k \in 1 .. Len(log) : log[k].user_id # 0 /\ log[k].record_time # NoTime}

\* the valid scans at most the look-back window older than the latest valid scan
InWindow(log) ==
  {k \in ValidScans(log) :
     \A j \in ValidScans(log) : log[k].record_time >= log[j].record_time - LookBackMs}

\* the scans of a batch, as positions of the terminal's log
BatchScans(r) == {r.batch[k].sn : k \in 1 .. Len(r.batch)}

\* C8 (amended): the scans a scheduled sync hands to processDeviceLogs are
\* exactly the valid scans whose device time lies at most the look-back window
\* before the latest device time among the valid scans of the fetched log;
\* the host clock has no part in the selection.
C8_LookBackFromLatestValidScan ==
  [][\A p \in PassIds :
       (passes[p].pc = "fetch" /\ passes'[p].pc \in {"emp", "zkOk"})
         => BatchScans(passes'[p]) = InWindow(deviceLog[passes[p].dev])]_vars

\* C8 as stated: no scan handed on lies more than the look-back window before
\* the latest device time of the fetched log, whatever entry carries it.
C8_LookBackFromLatestEntry ==
  [][\A p \in PassIds :
       (passes[p].pc = "fetch" /\ passes'[p].pc \in {"emp", "zkOk"})
         => \A k \in BatchScans(passes'[p]), j \in 1 .. Len(deviceLog[passes[p].dev]) :
              deviceLog[passes[p].dev][k].record_time
                >= deviceLog[passes[p].dev][j].record_time - LookBackMs]_vars

\* a batch was fetched that leaves out an older valid scan of the log
C8_OlderScanLeftOut ==
  \E p \in PassIds :
    /\ passes[p].batch # <<>>
    /\ \E k \in ValidScans(deviceLog[passes[p].dev]), j \in BatchScans(passes[p]) :
         k < j /\ k \notin BatchScans(passes[p])

\* C9: the pass that finds the employee inactive sets isActive and counts one
\* activation; a pass that comes to the activation of an employee who is
\* active already (a second pass over the same first scan) leaves the
\* employees alone, counts no activation and goes on to the attendance record;
\* nothing but an activation changes an employee.
C9_ActivationIsIdempotent ==
  [][/\ \A p \in PassIds :
          (/\ passes[p].pc \in {"emp", "activate"}
           /\ passes'[p] # passes[p]
           /\ CurLog(passes[p]).userId \in EmployeeIds
           /\ employees[CurLog(passes[p]).userId].exists)
            => IF employees[CurLog(passes[p]).userId].isActive
               THEN /\ employees' = employees
                    /\ passes'[p].activated = passes[p].activated
                    /\ passes'[p].pc = "att"
               ELSE IF passes[p].pc = "emp"
                    THEN employees' = employees /\ passes'[p].pc = "activate"
                    ELSE /\ employees'[CurLog(passes[p]).userId].isActive
                         /\ passes'[p].activated = passes[p].activated + 1
                         /\ passes'[p].pc = "att"
     /\ \A u \in EmployeeIds : employees[u].isActive => employees'[u] = employees[u]]_vars

\* C10: a record created from a scan of the terminal has the scan's device
\* time as its check-in, that time's calendar date as its date, the scan's
\* verification method, the syncing device, and status present until a
\* check-out is reconciled.
C10_RecordTakenFromScan ==
  \A k \in Records :
    ledger[k].rawSn # 0 =>
      LET scan == deviceLog[ledger[k].deviceId][ledger[k].rawSn] IN
      /\ ledger[k].employeeId = scan.user_id
      /\ ledger[k].checkInTime = scan.record_time
      /\ ledger[k].date = DateOnly(scan.record_time)
      /\ ledger[k].verificationMethod = getVerificationType(scan.type)
      /\ ledger[k].checkOutTime = NoTime => ledger[k].status = "present"

\* the record the lookup of a pass finds for the scan it stands at (0: none)
FoundRecord(r) == FindRecord(CurLog(r).userId, DateOnly(CurLog(r).timestamp))

AtUnknownScan(r) ==
  /\ r.pc = "emp"
  /\ \/ CurLog(r).userId \notin EmployeeIds
     \/ ~employees[CurLog(r).userId].exists

\* C12: a scan whose biometric id matches no employee changes neither the
\* employees nor the ledger, sends nothing, records no failure for the
\* device, adds one to skipped and nothing to the other counts, and the pass
\* goes on with the next scan of the unchanged batch (or, after the last scan,
\* to the success update) in the state in which the batch without that scan
\* would have left it.
C12_UnknownScanIsSkipped ==
  [][\A p \in PassIds :
       (AtUnknownScan(passes[p]) /\ passes'[p] # passes[p])
         => /\ employees' = employees
            /\ ledger' = ledger
            /\ sent' = sent
            /\ dbDevices' = dbDevices
            /\ passes'[p] = [passes[p] EXCEPT
                  !.skipped = @ + 1,
                  !.i = IF passes[p].i < Len(passes[p].batch) THEN @ + 1 ELSE @,
                  !.pc = IF passes[p].i < Len(passes[p].batch) THEN "emp" ELSE "zkOk"]]_vars

\* a pass skipped an unknown scan and then created a record from a later scan
\* of the same batch
C12_LaterScanReconciled ==
  \E p \in PassIds :
    /\ passes[p].kind = "sync"
    /\ passes[p].i = 2
    /\ passes[p].batch[1].userId \in EmployeeIds
    /\ ~employees[passes[p].batch[1].userId].exists
    /\ passes[p].skipped = 1
    /\ passes[p].processed = 1

\* time between the stored check-in and check-out, in milliseconds
WorkedMs(a) == a.checkOutTime - a.checkInTime

\* C13: once a check-out is stored in a record that had its check-in, the
\* status is present for at least 480 worked minutes, half_day for 240 to 479
\* and early_leave below 240, never absent, and the overtime is the whole
\* minutes worked beyond 8 hours (0 when there are none).
C13_StatusByWorkedTime ==
  \A k \in Records :
    (ledger[k].checkInTime # NoTime /\ ledger[k].checkOutTime # NoTime) =>
      LET a == ledger[k] IN
      /\ a.status # "absent"
      /\ WorkedMs(a) >= 480 * MinuteMs => a.status = "present"
      /\ (WorkedMs(a) >= 240 * MinuteMs /\ WorkedMs(a) < 480 * MinuteMs) => a.status = "half_day"
      /\ WorkedMs(a) < 240 * MinuteMs => a.status = "early_leave"
      /\ IF WorkedMs(a) > 480 * MinuteMs
         THEN /\ a.overtimeMinutes * MinuteMs <= WorkedMs(a) - 480 * MinuteMs
              /\ WorkedMs(a) - 480 * MinuteMs < (a.overtimeMinutes + 1) * MinuteMs
         ELSE a.overtimeMinutes = 0

\* a record was closed after more than eight hours, with overtime
C13_OvertimeStored ==
  \E k \in Records :
    /\ ledger[k].checkOutTime # NoTime
    /\ ledger[k].status = "present"
    /\ ledger[k].overtimeMinutes = 1

\* C14: a manual sync (forceFullSync) hands to processDeviceLogs every valid
\* scan of the terminal's log whose device time lies within the last 7 days,
\* the scans older than the 2-minute window included.
C14_ManualSyncLooksBackSevenDays ==
  [][\A p \in PassIds :
       (/\ passes[p].pc = "fetch"
        /\ passes[p].force
        /\ passes'[p].pc \in {"emp", "zkOk"})
         => \A k \in ValidScans(deviceLog[passes[p].dev]) :
              deviceLog[passes[p].dev][k].record_time >= now - ForceLookBackMs
                => k \in BatchScans(passes'[p])]_vars

\* the executions that are sync attempts, whoever started them
SyncKinds == {"cron", "sweep", "sync", "manual"}

\* C15: when a sync attempt for an active device returns, the device's
\* lastSyncStatus is success with no error or failed with the error's message,
\* never pending, and lastSyncTime is the time of the attempt; this holds for
\* a device that ZKTecoService has not registered as well.
C15_HealthRecordedOnReturn ==
  [][\A p \in PassIds :
       (/\ passes[p].pc # "idle"
        /\ passes'[p].pc = "idle"
        /\ passes[p].kind \in SyncKinds
        /\ dbDevices[passes[p].dev].exists
        /\ dbDevices[passes[p].dev].isActive)
         => LET device == dbDevices'[passes[p].dev] IN
            /\ device.lastSyncStatus \in {"success", "failed"}
            /\ device.lastSyncStatus = "success" => device.lastSyncError = NoError
            /\ device.lastSyncStatus = "failed" => device.lastSyncError # NoError
            /\ device.lastSyncTime = now]_vars

\* the entries of the client map subscribed to a channel
Subscribers(channel) == {e \in clients : channel \in e.subscriptions}

\* C16: in broadcastToChannel a subscriber whose send fails is removed from
\* the client map, every other subscriber of the channel whose connection is
\* open is sent the message, nobody else is sent anything, and the count
\* returned is the number of connections that were sent the message.
C16_BroadcastSurvivesFailedSend ==
  [][\A channel \in Channels, broken \in Brokens :
       WsBroadcastToChannel(channel, broken) =>
         /\ \A e \in Subscribers(channel) :
              IF e.ws \in broken
              THEN ~\E f \in clients' : f.id = e.id
              ELSE socks[e.ws].open =>
                     /\ e \in clients'
                     /\ Len(sent'[e.ws]) = Len(sent[e.ws]) + 1
                     /\ sent'[e.ws][Len(sent'[e.ws])].via = channel
         /\ \A c \in Conns :
              (~\E e \in Subscribers(channel) : e.ws = c /\ c \notin broken)
                => sent'[c] = sent[c]
         /\ \A e \in clients \ Subscribers(channel) : e \in clients'
         /\ sentCount(WsState, channel, broken)
              = Cardinality({c \in Conns : sent'[c] # sent[c]})]_vars

\* a broadcast lost one subscriber to a failed send and reached another: the
\* first socket is open but has no entry in the client map, the second
\* received a message of the broadcast
C16_OneFailedOneReceived ==
  /\ socks[1].open
  /\ ~\E e \in clients : e.ws = 1
  /\ Len(sent[1]) > 0
  /\ \E e \in clients : e.ws = 2
  /\ \E k \in 1 .. Len(sent[2]) : sent[2][k].via = <<"attendance", "all">>

\* C17: one call of broadcastAttendanceUpdate writes the event to a
\* connection at most once, although it publishes on attendance:all and on
\* attendance:employee:<id>; no entry of the client map is subscribed to both
\* for any subscription set reached through connect, subscribe and unsubscribe.
C17_EventAtMostOncePerConnection ==
  [][\A e \in EmployeeIds, broken \in Brokens :
       WsAttendanceUpdate(e, broken) =>
         /\ \A c \in Conns :
              /\ Len(sent'[c]) <= Len(sent[c]) + 1
              /\ SubSeq(sent'[c], 1, Len(sent[c])) = sent[c]
         /\ \A x \in clients :
              ~ /\ <<"attendance", "all">> \in x.subscriptions
                /\ <<"attendance", "employee", EmployeePk(e)>> \in x.subscriptions]_vars

\* one event went out on both channels: the first connection received it on
\* attendance:all, the second on the channel of the employee, once each
C17_SentOnBothChannels ==
  /\ \E k \in 1 .. Len(sent[1]) :
       /\ sent[1][k].type = "attendance_update"
       /\ sent[1][k].via = <<"attendance", "all">>
  /\ \E k \in 1 .. Len(sent[2]) :
       /\ sent[2][k].type = "attendance_update"
       /\ sent[2][k].via = <<"attendance", "employee", EmployeePk(1)>>
  /\ Cardinality({k \in 1 .. Len(sent[2]) : sent[2][k].type = "attendance_update"}) = 1

\* a device whose row exists and is not active
Deactivated(d) == dbDevices[d].exists /\ ~dbDevices[d].isActive

\* the execution in slot p passes the registration check of syncDeviceLogs in
\* this step and goes on to contact the terminal
EntersSync(p) == passes[p].pc # "fetch" /\ passes'[p].pc = "fetch"

\* C18: while a device is deactivated no interval timer and no cron job is
\* scheduled for it, and no execution enters syncDeviceLogs for it, whatever
\* requests (update of address, port or password, manual sync) arrive.
C18_DeactivatedDeviceIsLeftAlone ==
  [][\A d \in DeviceIds :
       /\ (dbDevices'[d].exists /\ ~dbDevices'[d].isActive)
            => liveIntervals'[d] = 0 /\ liveJobs'[d] = 0
       /\ Deactivated(d)
            => \A p \in PassIds : EntersSync(p) => passes'[p].dev # d]_vars

\* the executions that are inside getDeviceLogs or syncUsersFromDevice with
\* a connected socket at terminal d
CallsConnected(d) ==
  {p \in PassIds : passes[p].dev = d /\ passes[p].pc \in CallPcs /\ passes[p].zk}

\* C19: every connection open at a terminal belongs to a call of getDeviceLogs
\* or syncUsersFromDevice that has not returned or thrown yet, whichever way
\* earlier calls ended (createSocket, the fetch or disconnect failing).
C19_ConnectionClosedOnReturn ==
  \A d \in DeviceIds : sockets[d] = Cardinality(CallsConnected(d))

\* C20: when the scans of a sync were fetched and reconciled and only the
\* update of the device's health fields fails, syncDeviceLogs does not reject
\* and the device is not recorded as failed.
C20_PersistFailureIsNotASyncFailure ==
  [][\A p \in PassIds :
       (passes[p].pc = "zkOk" /\ passes[p].batch # <<>>) =>
         /\ passes'[p].pc # "thrown"
         /\ dbDevices'[passes[p].dev].lastSyncStatus # "failed"]_vars

\* the insert of the execution in slot p is about to be rejected by the unique
\* index (employee_id, date)
AtConflict(p) ==
  /\ passes[p].pc = "create"
  /\ UniqueViolation(CurLog(passes[p]).userId, DateOnly(CurLog(passes[p]).timestamp))

\* C21: a pass whose create is rejected by the uniqueness constraint goes on
\* with its batch (it retries the scan or counts it as failed): the pass does
\* not end at the rejected create and the device is not marked failed by it.
C21_ConflictDoesNotAbortTheSync ==
  [][\A p \in PassIds :
       AtConflict(p) /\ passes'[p] # passes[p] =>
         /\ passes'[p].pc # "idle"
         /\ dbDevices'[passes[p].dev].lastSyncStatus # "failed"]_vars

\* C22: a failed sync of the active device (device 1) leaves its interval
\* timer set, and once the terminal answers for good a later tick brings the
\* device to lastSyncStatus success.
C22_FailedSyncIsRetried ==
  /\ [](dbDevices[1].lastSyncStatus = "failed" => liveIntervals[1] > 0)
  /\ <>[](1 \notin offline) =>
       ((dbDevices[1].lastSyncStatus = "failed" /\ dbDevices[1].isActive)
          ~> dbDevices[1].lastSyncStatus = "success")

\* a sync of the device has failed, its terminal answers again, and a later
\* tick has started the next sync
C22_RetryStarted ==
  /\ dbDevices[1].lastSyncStatus = "failed"
  /\ 1 \notin offline
  /\ \E p \in PassIds : passes[p].dev = 1 /\ passes[p].pc = "fetch"

\* C23: when processDeviceLogs has gone through its batch, the counts it
\* keeps (processed for created records, skipped; it keeps none for updated
\* records) add up to the size of the batch.
C23_CountsCoverTheBatch ==
  \A p \in PassIds :
    (passes[p].pc = "zkOk" /\ passes[p].batch # <<>>) =>
      passes[p].processed + passes[p].skipped = Len(passes[p].batch)

\* C24: in every stored record isLate is true exactly when the check-in is
\* later than the expected start (the hook applies no grace threshold),
\* lateMinutes is positive exactly when isLate is true, and likewise
\* isEarlyLeave and earlyLeaveMinutes for a check-out before the expected end.
C24_LateAndEarlyFollowTheTimes ==
  \A k \in Records :
    LET a == ledger[k]
        expectedStart == a.date * DayMs + ExpectedStartHour * HourMs
        expectedEnd == a.date * DayMs + ExpectedEndHour * HourMs
    IN  /\ a.isLate <=> (a.checkInTime # NoTime /\ a.checkInTime > expectedStart)
        /\ a.lateMinutes > 0 <=> a.isLate
        /\ a.isEarlyLeave <=> (a.checkOutTime # NoTime /\ a.checkOutTime < expectedEnd)
        /\ a.earlyLeaveMinutes > 0 <=> a.isEarlyLeave

\* C25: a step that creates a record or stores a check-out from a device
\* scan leaves its handler at the broadcast of that record: the broadcast
\* comes after the write, once for each write.
C25_WriteIsFollowedByBroadcast ==
  [][\A k \in 1 .. Len(ledger') :
       (k > Len(ledger) \/ ledger'[k] # ledger[k]) =>
         \E p \in PassIds :
           /\ passes[p].pc # "bcast"
           /\ passes'[p].pc = "bcast"
           /\ passes'[p].att = k]_vars

\* C26: an employee who has an attendance record created from a device scan
\* is active, and an employee row exists for it; roster syncs create inactive
\* rows only and leave isActive of the rows they find alone.
C26_EmployeeWithRecordIsActive ==
  \A k \in Records :
    /\ employees[ledger[k].employeeId].exists
    /\ employees[ledger[k].employeeId].isActive

\* C27: for the syncInterval s stored for a device, the cron schedule derived
\* from s has the period of the interval timer set from s, s seconds, and
\* canSync lets the device sync exactly from that time since the last sync on.
C27_OnePeriodForAllTimers ==
  \A d \in DeviceIds :
    dbDevices[d].exists =>
      LET s == dbDevices[d].syncInterval
          fresh == [NewDevice(TRUE) EXCEPT !.syncInterval = s]
      IN  /\ CronPeriodMs(getCronExpression(s)) = IntervalPeriodMs(s)
          /\ canSync(fresh, IntervalPeriodMs(s))
          /\ ~canSync(fresh, IntervalPeriodMs(s) - 1)

\* C28: a broadcast of a record of employee e is written to the open
\* connections of e's account and to no connection of another employee's
\* account.
C28_EventReachesItsEmployee ==
  [][\A e \in EmployeeIds :
       WsAttendanceUpdate(e, {}) =>
         \A x \in clients :
           (x.user.role = "employee" /\ socks[x.ws].open) =>
             (sent'[x.ws] # sent[x.ws] <=> x.user = AccountOf(e))]_vars

\* the entries of the client map that write to connection c
EntriesOf(cl, c) == {x \in cl : x.ws = c}

\* C29: a connection that is open before and after another connection is
\* accepted or closed keeps its own entry of the client map, with its
\* subscriptions.
C29_OpenConnectionKeepsItsEntry ==
  [][\A c \in Conns :
       ((\E user \in WsUsers : WsConnect(c, user, {})) \/ WsClose(c)) =>
         \A d \in Conns \ {c} :
           (socks[d].open /\ EntriesOf(clients, d) # {}) =>
             EntriesOf(clients', d) = EntriesOf(clients, d)]_vars

\* the active devices whose row says the last sync failed
LeftFailed == {d \in DeviceIds : /\ dbDevices[d].exists /\ dbDevices[d].isActive
                                 /\ dbDevices[d].lastSyncStatus = "failed"}

\* C30: when the syncDeviceLogs call of POST /devices/:id/sync ends with the
\* device marked failed, the route answers success: false; the summary of
\* forceSyncAll has successful + failed = total, and failed is the number of
\* devices left with lastSyncStatus failed.
C30_OperatorIsToldOfFailure ==
  [][/\ \A p \in PassIds :
          (/\ passes[p].force /\ passes[p].pc # "idle" /\ passes'[p].pc = "idle"
           /\ dbDevices'[passes[p].dev].lastSyncStatus = "failed")
            => operator'.answer = "error"
     /\ ForceSyncAllReturn =>
          /\ operator'.result.successful + operator'.result.failed = operator'.result.total
          /\ operator'.result.failed = Cardinality(LeftFailed)]_vars

====
